---- MODULE Spec2Model ----
(***************************************************************************)
(* A model of the Revit MCP bridge, src/docker/mcp-tool-handler.py:        *)
(* the startup sequence of main (schema load, backend spawn, readiness     *)
(* probes, tool registration, HTTP server), the handling of one POST       *)
(* request at a time (HTTPServer is single-threaded), the two translator   *)
(* functions, and shutdown.                                                *)
(*                                                                         *)
(* Python values are modelled as tagged records (JStr, JDict, ...), a      *)
(* Python call as a record that either carries the returned value or the   *)
(* class and message of the exception it raised.                           *)
(***************************************************************************)
EXTENDS Integers, Sequences, FiniteSets, TLC

(***************************************************************************)
(* Bounds of the model.                                                    *)
(***************************************************************************)
\* max_retries of _wait_for_server_ready (its default is 30).
MaxRetries == 3
\* The largest number of schema files in the schema directory.
MaxSchemas == 2
\* The number of inbound requests the HTTP server is given.
MaxRequests == 2
\* A cap on the backend calls of one request (the code issues at most one).
MaxBackendCalls == 2

(***************************************************************************)
(* JSON / Python values.                                                   *)
(***************************************************************************)
JStr(s) == [t |-> "str", s |-> s]
JNum(n) == [t |-> "int", n |-> n]
JBool(b) == [t |-> "bool", b |-> b]
JNull == [t |-> "NoneType"]
JList == [t |-> "list"]
JDict(f) == [t |-> "dict", d |-> f]
EmptyDict == JDict(<<>>)

IsDict(v) == v.t = "dict"

\* dict.get(key, default) on a value that is a dict.
Get(v, key, default) == IF key \in DOMAIN v.d THEN v.d[key] ELSE default

\* The outcome of a Python call: a returned value, or a raised exception.
Ret(v) == [raised |-> FALSE, val |-> v, cls |-> "", msg |-> ""]
Raise(c, m) == [raised |-> TRUE, val |-> JNull, cls |-> c, msg |-> m]

\* str(e) of the AttributeError of calling .get on a value that is no dict.
NoGetAttr(v) == "'" \o v.t \o "' object has no attribute 'get'"

\* The exception classes the model raises; all of them derive from Exception
\* (KeyboardInterrupt and SystemExit do not).
ExceptionClasses ==
    {"ValueError", "AttributeError", "TypeError", "JSONDecodeError",
     "ConnectionError", "ChunkedEncodingError", "RuntimeError", "OSError",
     "BrokenPipeError", "TimeoutExpired", "UnicodeDecodeError"}
IsException(c) == c \in ExceptionClasses

(***************************************************************************)
(* The tool names.  The translators know two; a third stands for every     *)
(* other name.                                                             *)
(***************************************************************************)
ElementQuery == "revit_element_query"
DynamoExecute == "revit_dynamo_execute"
KnownTools == {ElementQuery, DynamoExecute}
ToolNames == KnownTools \cup {"revit_nonexistent"}

\* str(e) of ValueError(f"Unknown tool: {tool_name}").
UnknownToolMsg(tool_name) == "Unknown tool: " \o tool_name

(***************************************************************************)
(* translate_mcp_to_revit                                                  *)
(***************************************************************************)
\* A lookup of the key in the request itself, not in its inputs.
InputOf_TopLevel(mcp_request, key, default) ==
    IF ~IsDict(mcp_request) THEN Raise("AttributeError", NoGetAttr(mcp_request))
    ELSE Ret(Get(mcp_request, key, default))

\* mcp_request.get("inputs", {}).get(key, default)
InputOf(mcp_request, key, default) ==
    IF ~IsDict(mcp_request) THEN Raise("AttributeError", NoGetAttr(mcp_request))
    ELSE LET inputs == Get(mcp_request, "inputs", EmptyDict) IN
         IF ~IsDict(inputs) THEN Raise("AttributeError", NoGetAttr(inputs))
         ELSE Ret(Get(inputs, key, default))

\* A translator that reads the inputs before it branches on the tool name.
translate_mcp_to_revit_InputsFirst(tool_name, mcp_request) ==
    LET inputs == InputOf(mcp_request, "category", JStr("")) IN
    IF inputs.raised THEN inputs
    ELSE IF tool_name = ElementQuery THEN
        Ret(JDict([action |-> JStr("getElementsByCategory"),
                   parameters |->
                       JDict([category |-> inputs.val,
                              filterExpression |->
                                  InputOf(mcp_request, "filter", JStr("")).val])]))
    ELSE IF tool_name = DynamoExecute THEN
        Ret(JDict([action |-> JStr("runDynamoScript"),
                   parameters |->
                       JDict([scriptPath |->
                                  InputOf(mcp_request, "script_path", JStr("")).val,
                              scriptParameters |->
                                  InputOf(mcp_request, "parameters", EmptyDict).val])]))
    ELSE Raise("ValueError", UnknownToolMsg(tool_name))

translate_mcp_to_revit(tool_name, mcp_request) ==
    IF tool_name = ElementQuery THEN
        LET category == InputOf(mcp_request, "category", JStr(""))
            filter_expr == InputOf(mcp_request, "filter", JStr(""))
        IN  IF category.raised THEN category
            ELSE IF filter_expr.raised THEN filter_expr
            ELSE Ret(JDict([action |-> JStr("getElementsByCategory"),
                            parameters |->
                                JDict([category |-> category.val,
                                       filterExpression |-> filter_expr.val])]))
    ELSE IF tool_name = DynamoExecute THEN
        LET script_path == InputOf(mcp_request, "script_path", JStr(""))
            parameters == InputOf(mcp_request, "parameters", EmptyDict)
        IN  IF script_path.raised THEN script_path
            ELSE IF parameters.raised THEN parameters
            ELSE Ret(JDict([action |-> JStr("runDynamoScript"),
                            parameters |->
                                JDict([scriptPath |-> script_path.val,
                                       scriptParameters |-> parameters.val])]))
    ELSE Raise("ValueError", UnknownToolMsg(tool_name))

(***************************************************************************)
(* translate_revit_to_mcp                                                  *)
(***************************************************************************)
\* An error result that carries a result field as well.
ErrorResponse_WithResult(err) ==
    JDict([status |-> JStr("error"), error |-> err, result |-> JNull])

ErrorResponse(err) == JDict([status |-> JStr("error"), error |-> err])
SuccessResponse(res) == JDict([status |-> JStr("success"), result |-> res])

\* A tool-specific part with the result shapes of the two tools exchanged.
ToolResult_Swapped(tool_name, data) ==
    IF tool_name = DynamoExecute THEN Ret(SuccessResponse(data))
    ELSE IF tool_name = ElementQuery THEN
        Ret(SuccessResponse(JDict([success |-> JBool(TRUE), results |-> data])))
    ELSE Raise("ValueError", UnknownToolMsg(tool_name))

\* A tool-specific part whose last branch returns the data for any name.
ToolResult_NoElse(tool_name, data) ==
    IF tool_name = DynamoExecute THEN
        Ret(SuccessResponse(JDict([success |-> JBool(TRUE), results |-> data])))
    ELSE Ret(SuccessResponse(data))

\* The tool-specific part of translate_revit_to_mcp, after the error check.
ToolResult(tool_name, data) ==
    IF tool_name = ElementQuery THEN Ret(SuccessResponse(data))
    ELSE IF tool_name = DynamoExecute THEN
        Ret(SuccessResponse(JDict([success |-> JBool(TRUE), results |-> data])))
    ELSE Raise("ValueError", UnknownToolMsg(tool_name))

\* A translator that branches on the tool name before it looks at the
\* backend's error indicator.
translate_revit_to_mcp_ToolFirst(tool_name, revit_response) ==
    IF ~IsDict(revit_response)
    THEN Raise("AttributeError", NoGetAttr(revit_response))
    ELSE IF tool_name \notin KnownTools
    THEN Raise("ValueError", UnknownToolMsg(tool_name))
    ELSE IF Get(revit_response, "status", JNull) = JStr("error")
    THEN Ret(ErrorResponse(Get(revit_response, "error", JStr("Unknown error"))))
    ELSE ToolResult(tool_name, Get(revit_response, "data", EmptyDict))

translate_revit_to_mcp(tool_name, revit_response) ==
    IF ~IsDict(revit_response)
    THEN Raise("AttributeError", NoGetAttr(revit_response))
    ELSE IF Get(revit_response, "status", JNull) = JStr("error")
    THEN Ret(ErrorResponse(Get(revit_response, "error", JStr("Unknown error"))))
    ELSE ToolResult(tool_name, Get(revit_response, "data", EmptyDict))

(***************************************************************************)
(* The inputs of the model: what the schema directory holds, what the      *)
(* backend and the registry answer, what callers post.                     *)
(***************************************************************************)
\* The listings of the schema directory: tool names (file stems), each once.
SchemaLists ==
    {s \in UNION {[1..n -> ToolNames] : n \in 0..MaxSchemas} :
        \A i, j \in DOMAIN s : i # j => s[i] # s[j]}
\* The schema directory: its .json files, whether all of them can be read
\* and parsed, and the position of the first file whose content is valid
\* JSON but no object (0 when every file holds an object).
SchemaDirs ==
    {[files |-> f, ok |-> o, bad |-> b] :
        f \in SchemaLists, o \in BOOLEAN, b \in 0..MaxSchemas} \cap
    {d \in [files : SchemaLists, ok : BOOLEAN, bad : 0..MaxSchemas] :
        d.bad <= Len(d.files)}

\* What one requests call can end in: an HTTP response, an exception, or no
\* answer at all (no call of the program passes a timeout).
HttpAnswer(code, text, json, body) ==
    [kind |-> "http", code |-> code, text |-> text, json |-> json,
     body |-> body, cls |-> "", msg |-> ""]
ExcAnswer(c, m) ==
    [kind |-> "exc", code |-> 0, text |-> "", json |-> FALSE, body |-> JNull,
     cls |-> c, msg |-> m]
NoAnswer ==
    [kind |-> "none", code |-> 0, text |-> "", json |-> FALSE, body |-> JNull,
     cls |-> "", msg |-> ""]

\* Answers to the readiness probe GET /api/status.
ProbeAnswers ==
    {HttpAnswer(200, "ok", FALSE, JNull),
     HttpAnswer(204, "", FALSE, JNull),
     HttpAnswer(503, "starting", FALSE, JNull),
     ExcAnswer("ConnectionError", "Connection refused"),
     ExcAnswer("ChunkedEncodingError", "Connection broken"),
     NoAnswer}

\* Answers of the registry to POST /v1/tools.
RegistryAnswers ==
    {HttpAnswer(200, "ok", FALSE, JNull),
     HttpAnswer(201, "created", FALSE, JNull),
     HttpAnswer(500, "Internal Server Error", FALSE, JNull),
     ExcAnswer("ConnectionError", "Connection refused")}

\* Bodies of backend responses that parse as JSON.
BodyErrorTimeout == JDict([status |-> JStr("error"), error |-> JStr("timeout")])
BodyErrorBare == JDict([status |-> JStr("error")])
BodyOkCount == JDict([status |-> JStr("ok"), data |-> JDict([count |-> JNum(3)])])
BodyOkNoData == JDict([status |-> JStr("ok")])
BackendBodies == {BodyErrorTimeout, BodyErrorBare, BodyOkCount, BodyOkNoData, JList}

\* Answers of the backend to a tool call.
BackendAnswers ==
    {ExcAnswer("ConnectionError", "Connection refused"),
     HttpAnswer(500, "Internal Server Error", TRUE, BodyErrorTimeout),
     HttpAnswer(201, "{}", TRUE, BodyOkCount),
     HttpAnswer(200, "<html>", FALSE, JNull)}
    \cup {HttpAnswer(200, "json", TRUE, b) : b \in BackendBodies}

\* Request payloads that parse as JSON.
ReqElement ==
    JDict([inputs |-> JDict([category |-> JStr("Walls"),
                             filter |-> JStr("Height>10")])])
ReqDynamo ==
    JDict([inputs |-> JDict([script_path |-> JStr("a.dyn"),
                             parameters |-> JDict([n |-> JNum(1)])])])
ReqBadInputs == JDict([inputs |-> JStr("x")])
Payloads == {ReqElement, ReqDynamo, EmptyDict, ReqBadInputs, JList}

\* What a caller posts: with or without a Content-Length header, a body that
\* parses as JSON or does not.
RawBodies ==
    {[length |-> FALSE, wellformed |-> TRUE, data |-> ReqElement],
     [length |-> TRUE, wellformed |-> FALSE, data |-> JNull]}
    \cup {[length |-> TRUE, wellformed |-> TRUE, data |-> p] : p \in Payloads}

NoFault == [cls |-> "", at |-> ""]
Fault(c, where) == [cls |-> c, at |-> where]
\* What do_POST has written to the caller when it has written nothing.
NoResponse == [code |-> 0, ctype |-> "", body |-> JNull]

(***************************************************************************)
(* The state.                                                              *)
(***************************************************************************)
VARIABLES
    mainPc,                 \* where main is
    schemaDir,              \* the schema directory (an input)
    tool_schemas,           \* handler.tool_schemas, as the list of its keys
    revit_server_process,   \* handler.revit_server_process: "None" or "Popen"
    attempt,                \* probes issued by the running _wait_for_server_ready
    lastProbe,              \* the answer to the last probe
    saw2xx,                 \* some probe was answered with a 2xx status
    readiness,              \* how _wait_for_server_ready ended
    regIdx,                 \* the loop position of register_tools
    regOutcomes,            \* what register_tools logged, one entry per attempt
    httpServer,             \* "none", "bound", "serving", "closed"
    events,                 \* the startup events, in order
    fatal,                  \* the exception that left main's try block, if any
    signals,                \* terminate() calls on the backend process
    pendingExit,            \* the status given to sys.exit, 0 when not called
    exitCode,               \* the exit status of the bridge, -1 while it runs
    reqPc,                  \* where the current request is
    reqTool,                \* the tool name taken from its path
    reqRaw,                 \* what the caller posted
    request_data,           \* do_POST's request_data
    revit_request,          \* handle_tool_request's revit_request
    response,               \* the backend's answer to the request
    response_data,          \* what handle_tool_request returned
    backendCalls,           \* backend calls issued for the current request
    reqFault,               \* an exception that escaped while handling it
    httpResp,               \* the response written to the caller
    accepted,               \* requests accepted so far
    trPc, trTool, trReq, trResp, trOut,  \* a direct call of a translator
    monPc,                  \* where the output monitor thread is
    pipe,                   \* lines buffered in the pipe of each stream
    writeEnd,               \* whether the backend holds the stream open
    silent,                 \* the streams the backend leaves open and unused
    written,                \* lines the backend has written to each stream
    batchPc,                \* where batch_process is
    html_files,             \* the HTML files found (an input)
    fileIdx,                \* the loop position of batch_process
    attempts,               \* calls of parse_html_file, per file
    all_results,            \* batch_process's all_results
    training_data,          \* batch_process's training_data
    stats                   \* the statistics written to processing_stats.json

mainVars ==
    <<mainPc, schemaDir, tool_schemas, revit_server_process, attempt,
      lastProbe, saw2xx, readiness, regIdx, regOutcomes, httpServer, events,
      fatal, signals, pendingExit, exitCode>>
reqVars ==
    <<reqPc, reqTool, reqRaw, request_data, revit_request, response,
      response_data, backendCalls, reqFault, httpResp, accepted>>
trVars == <<trPc, trTool, trReq, trResp, trOut>>
monVars == <<monPc, pipe, writeEnd, silent, written>>
batchVars ==
    <<batchPc, html_files, fileIdx, attempts, all_results, training_data, stats>>
vars == <<mainVars, reqVars, trVars, monVars, batchVars>>

MainInit ==
    /\ mainPc = "load"
    /\ schemaDir \in SchemaDirs
    /\ tool_schemas = <<>>
    /\ revit_server_process = "None"
    /\ attempt = 0
    /\ lastProbe = NoAnswer
    /\ saw2xx = FALSE
    /\ readiness = "pending"
    /\ regIdx = 0
    /\ regOutcomes = <<>>
    /\ httpServer = "none"
    /\ events = <<>>
    /\ fatal = NoFault
    /\ signals = 0
    /\ pendingExit = 0
    /\ exitCode = -1

ReqInit ==
    /\ reqPc = "idle"
    /\ reqTool = ""
    /\ reqRaw = [length |-> TRUE, wellformed |-> TRUE, data |-> JNull]
    /\ request_data = JNull
    /\ revit_request = JNull
    /\ response = NoAnswer
    /\ response_data = JNull
    /\ backendCalls = 0
    /\ reqFault = NoFault
    /\ httpResp = NoResponse
    /\ accepted = 0

TrIdle ==
    /\ trPc = "none"
    /\ trTool = ""
    /\ trReq = JNull
    /\ trResp = JNull
    /\ trOut = Ret(JNull)

\* The two output streams of the backend process.
Streams == {"stdout", "stderr"}

\* The monitor thread shares no variable with main or with the requests: it
\* is followed in a specification of its own, and rests here.
MonIdle ==
    /\ monPc = "none"
    /\ pipe = [s \in Streams |-> 0]
    /\ writeEnd = [s \in Streams |-> FALSE]
    /\ silent = {}
    /\ written = [s \in Streams |-> 0]

\* The statistics while none are written.
NoStats ==
    [total_files_processed |-> -1, total_qa_pairs |-> -1,
     files_with_errors |-> -1]

\* The HTML parser is a program of its own: it is followed in a
\* specification of its own, and rests here.
BatchIdle ==
    /\ batchPc = "none"
    /\ html_files = <<>>
    /\ fileIdx = 0
    /\ attempts = <<>>
    /\ all_results = <<>>
    /\ training_data = <<>>
    /\ stats = NoStats

Init == MainInit /\ ReqInit /\ TrIdle /\ MonIdle /\ BatchIdle

(***************************************************************************)
(* main: startup.                                                          *)
(***************************************************************************)
\* RevitMcpToolHandler(): _load_tool_schemas runs outside main's try block,
\* so its exception ends the process with a traceback and status 1.
\* Where an exception of _load_tool_schemas leads: the handler is built
\* outside main's try block, so the exception leaves main and the process
\* ends.
AfterLoadFailure_Continue == "start"
AfterLoadFailure == "exited"

LoadSchemas ==
    /\ mainPc = "load"
    /\ IF schemaDir.ok
       THEN /\ tool_schemas' = schemaDir.files
            /\ mainPc' = "start"
            /\ UNCHANGED <<fatal, exitCode>>
       ELSE /\ fatal' = Fault("JSONDecodeError", "load")
            /\ exitCode' = 1
            /\ mainPc' = AfterLoadFailure
            /\ UNCHANGED tool_schemas
    /\ UNCHANGED <<schemaDir, revit_server_process, attempt, lastProbe, saw2xx,
                   readiness, regIdx, regOutcomes, httpServer, events, signals,
                   pendingExit>>
    /\ UNCHANGED <<reqVars, trVars, monVars, batchVars>>

\* Where start_revit_server goes once the process and its monitor thread are
\* started: into _wait_for_server_ready.
AfterSpawn_NoWait == "registering"
AfterSpawn_Respawn == "start"
AfterSpawn == "waiting"

\* start_revit_server up to the call of _wait_for_server_ready.
SpawnBackend ==
    /\ mainPc = "start"
    /\ \E started \in BOOLEAN :
         IF started
         THEN /\ revit_server_process' = "Popen"
              /\ events' = Append(events, "spawn")
              /\ mainPc' = AfterSpawn
              /\ UNCHANGED fatal
         ELSE /\ fatal' = Fault("OSError", "spawn")
              /\ mainPc' = "fatal"
              /\ UNCHANGED <<revit_server_process, events>>
    /\ UNCHANGED <<schemaDir, tool_schemas, attempt, lastProbe, saw2xx,
                   readiness, regIdx, regOutcomes, httpServer, signals,
                   pendingExit, exitCode>>
    /\ UNCHANGED <<reqVars, trVars, monVars, batchVars>>

\* response.status_code == 200
ReadyStatus(code) == code = 200
\* except requests.exceptions.ConnectionError
ProbeCaught(c) == c = "ConnectionError"
Is2xx(code) == code \in 200..299

\* One iteration of the loop begins: requests.get is called.
ProbeIssue ==
    /\ mainPc = "waiting"
    /\ attempt < MaxRetries
    /\ attempt' = attempt + 1
    /\ mainPc' = "probing"
    /\ UNCHANGED <<schemaDir, tool_schemas, revit_server_process, lastProbe,
                   saw2xx, readiness, regIdx, regOutcomes, httpServer, events,
                   fatal, signals, pendingExit, exitCode>>
    /\ UNCHANGED <<reqVars, trVars, monVars, batchVars>>

\* requests.get ends, or never does: the call passes no timeout.
ProbeReturn ==
    /\ mainPc = "probing"
    /\ \E a \in ProbeAnswers :
         /\ lastProbe' = a
         /\ saw2xx' = (saw2xx \/ (a.kind = "http" /\ Is2xx(a.code)))
         /\ CASE a.kind = "http" /\ ReadyStatus(a.code) ->
                   /\ readiness' = "ready"
                   /\ events' = Append(events, "ready")
                   /\ attempt' = 0
                   /\ mainPc' = "registering"
                   /\ UNCHANGED fatal
              [] a.kind = "http" /\ ~ReadyStatus(a.code) ->
                   /\ mainPc' = "sleeping"
                   /\ UNCHANGED <<readiness, events, attempt, fatal>>
              [] a.kind = "exc" /\ ProbeCaught(a.cls) ->
                   /\ mainPc' = "sleeping"
                   /\ UNCHANGED <<readiness, events, attempt, fatal>>
              [] a.kind = "exc" /\ ~ProbeCaught(a.cls) ->
                   /\ readiness' = "raised"
                   /\ fatal' = Fault(a.cls, "ready")
                   /\ mainPc' = "fatal"
                   /\ UNCHANGED <<events, attempt>>
              [] a.kind = "none" ->
                   /\ mainPc' = "probe_blocked"
                   /\ UNCHANGED <<readiness, events, attempt, fatal>>
    /\ UNCHANGED <<schemaDir, tool_schemas, revit_server_process, regIdx,
                   regOutcomes, httpServer, signals, pendingExit, exitCode>>
    /\ UNCHANGED <<reqVars, trVars, monVars, batchVars>>

\* time.sleep(retry_interval)
Sleep ==
    /\ mainPc = "sleeping"
    /\ mainPc' = "waiting"
    /\ UNCHANGED <<schemaDir, tool_schemas, revit_server_process, attempt,
                   lastProbe, saw2xx, readiness, regIdx, regOutcomes,
                   httpServer, events, fatal, signals, pendingExit, exitCode>>
    /\ UNCHANGED <<reqVars, trVars, monVars, batchVars>>

\* Where the loop's end leads: raise RuntimeError, out of start_revit_server
\* and into main's except clause.
NotReadyNext_LogOnly == "registering"
NotReadyNext == "fatal"

\* The loop is over: the error is logged and RuntimeError raised.
RaiseNotReady ==
    /\ mainPc = "waiting"
    /\ attempt = MaxRetries
    /\ readiness' = "failed"
    /\ fatal' = Fault("RuntimeError", "ready")
    /\ mainPc' = NotReadyNext
    /\ UNCHANGED <<schemaDir, tool_schemas, revit_server_process, attempt,
                   lastProbe, saw2xx, regIdx, regOutcomes, httpServer, events,
                   signals, pendingExit, exitCode>>
    /\ UNCHANGED <<reqVars, trVars, monVars, batchVars>>

(***************************************************************************)
(* register_tools                                                          *)
(***************************************************************************)
RegisterBegin ==
    /\ mainPc = "registering"
    /\ regIdx' = 1
    /\ events' = Append(events, "register")
    /\ mainPc' = "reg_loop"
    /\ UNCHANGED <<schemaDir, tool_schemas, revit_server_process, attempt,
                   lastProbe, saw2xx, readiness, regOutcomes, httpServer,
                   fatal, signals, pendingExit, exitCode>>
    /\ UNCHANGED <<reqVars, trVars, monVars, batchVars>>

\* response.status_code in (200, 201)
RegisteredStatus(code) == code \in {200, 201}
\* except Exception, around the registry call
RegisterCatches(c) == IsException(c)

\* Whether the i-th loaded schema is a dict: json.load returns whatever
\* the file holds, and schema.get needs a dict.
SchemaIsDict(i) == schemaDir.bad # i

\* One iteration: registration_data is built with schema.get, outside the
\* try; then the registration is posted with the bearer token, and its
\* outcome logged.
RegisterTool ==
    /\ mainPc = "reg_loop"
    /\ regIdx <= Len(tool_schemas)
    /\ \E a \in RegistryAnswers :
         LET tool_name == tool_schemas[regIdx]
             logged == IF a.kind = "exc" THEN "error"
                       ELSE IF RegisteredStatus(a.code) THEN "registered"
                       ELSE "failed"
         IN  /\ a.kind # "none"
             /\ IF ~SchemaIsDict(regIdx)
                THEN /\ fatal' = Fault("AttributeError", "registration_data")
                     /\ mainPc' = "fatal"
                     /\ UNCHANGED <<regIdx, regOutcomes>>
                ELSE IF a.kind = "exc" /\ ~RegisterCatches(a.cls)
                THEN /\ fatal' = Fault(a.cls, "register")
                     /\ mainPc' = "fatal"
                     /\ UNCHANGED <<regIdx, regOutcomes>>
                ELSE /\ regOutcomes' =
                            Append(regOutcomes,
                                   [tool |-> tool_name, outcome |-> logged,
                                    bearer |-> TRUE])
                     /\ regIdx' = regIdx + 1
                     /\ UNCHANGED <<fatal, mainPc>>
    /\ UNCHANGED <<schemaDir, tool_schemas, revit_server_process, attempt,
                   lastProbe, saw2xx, readiness, httpServer, events, signals,
                   pendingExit, exitCode>>
    /\ UNCHANGED <<reqVars, trVars, monVars, batchVars>>

\* A register_tools that empties self.tool_schemas when it is done.
RegisterDone_ClearsSchemas ==
    /\ mainPc = "reg_loop"
    /\ regIdx > Len(tool_schemas)
    /\ mainPc' = "bind"
    /\ tool_schemas' = <<>>
    /\ UNCHANGED <<schemaDir, revit_server_process, attempt,
                   lastProbe, saw2xx, readiness, regIdx, regOutcomes,
                   httpServer, events, fatal, signals, pendingExit, exitCode>>
    /\ UNCHANGED <<reqVars, trVars, monVars, batchVars>>

RegisterDone ==
    /\ mainPc = "reg_loop"
    /\ regIdx > Len(tool_schemas)
    /\ mainPc' = "bind"
    /\ UNCHANGED <<schemaDir, tool_schemas, revit_server_process, attempt,
                   lastProbe, saw2xx, readiness, regIdx, regOutcomes,
                   httpServer, events, fatal, signals, pendingExit, exitCode>>
    /\ UNCHANGED <<reqVars, trVars, monVars, batchVars>>

(***************************************************************************)
(* main: the HTTP server, and the ways out.                                *)
(***************************************************************************)
\* HTTPServer(('0.0.0.0', TOOL_PORT), ...) binds the port, or raises OSError.
StartHttpServer ==
    /\ mainPc = "bind"
    /\ \E bound \in BOOLEAN :
         IF bound
         THEN /\ httpServer' = "bound"
              /\ mainPc' = "bound"
              /\ UNCHANGED fatal
         ELSE /\ fatal' = Fault("OSError", "bind")
              /\ mainPc' = "fatal"
              /\ UNCHANGED httpServer
    /\ UNCHANGED <<schemaDir, tool_schemas, revit_server_process, attempt,
                   lastProbe, saw2xx, readiness, regIdx, regOutcomes, events,
                   signals, pendingExit, exitCode>>
    /\ UNCHANGED <<reqVars, trVars, monVars, batchVars>>

\* server.serve_forever()
ServeForever ==
    /\ mainPc = "bound"
    /\ httpServer' = "serving"
    /\ events' = Append(events, "serve")
    /\ mainPc' = "serving"
    /\ UNCHANGED <<schemaDir, tool_schemas, revit_server_process, attempt,
                   lastProbe, saw2xx, readiness, regIdx, regOutcomes, fatal,
                   signals, pendingExit, exitCode>>
    /\ UNCHANGED <<reqVars, trVars, monVars, batchVars>>

\* The stages in which a request is being handled by do_POST.
InFlight == {"received", "handling", "translated", "called", "returned", "handled"}

\* KeyboardInterrupt in serve_forever.  The server handles requests in the
\* thread that is interrupted, and no except clause of the handlers catches
\* KeyboardInterrupt, so a request being handled is abandoned.
Interrupt ==
    /\ mainPc = "serving"
    /\ mainPc' = "closing"
    /\ reqPc' = IF reqPc \in InFlight THEN "aborted" ELSE reqPc
    /\ UNCHANGED <<schemaDir, tool_schemas, revit_server_process, attempt,
                   lastProbe, saw2xx, readiness, regIdx, regOutcomes,
                   httpServer, events, fatal, signals, pendingExit, exitCode>>
    /\ UNCHANGED <<reqTool, reqRaw, request_data, revit_request, response,
                   response_data, backendCalls, reqFault, httpResp, accepted>>
    /\ UNCHANGED <<trVars, monVars, batchVars>>

\* finally: server.server_close()
ServerClose ==
    /\ mainPc = "closing"
    /\ httpServer' = "closed"
    /\ mainPc' = "shutdown"
    /\ UNCHANGED <<schemaDir, tool_schemas, revit_server_process, attempt,
                   lastProbe, saw2xx, readiness, regIdx, regOutcomes, events,
                   fatal, signals, pendingExit, exitCode>>
    /\ UNCHANGED <<reqVars, trVars, monVars, batchVars>>

\* except Exception: the error is logged and sys.exit(1) called; the finally
\* clause runs before the process exits.
FatalExit ==
    /\ mainPc = "fatal"
    /\ pendingExit' = 1
    /\ mainPc' = "shutdown"
    /\ UNCHANGED <<schemaDir, tool_schemas, revit_server_process, attempt,
                   lastProbe, saw2xx, readiness, regIdx, regOutcomes,
                   httpServer, events, fatal, signals, exitCode>>
    /\ UNCHANGED <<reqVars, trVars, monVars, batchVars>>

\* if self.revit_server_process
HasProcess_Always(p) == TRUE
HasProcess(p) == p # "None"

\* handler.shutdown(), up to the wait: terminate() when there is a process.
ShutdownTerminate ==
    /\ mainPc = "shutdown"
    /\ IF HasProcess(revit_server_process)
       THEN /\ signals' = signals + 1
            /\ mainPc' = "shutdown_wait"
            /\ UNCHANGED exitCode
       ELSE /\ exitCode' = pendingExit
            /\ mainPc' = "exited"
            /\ UNCHANGED signals
    /\ UNCHANGED <<schemaDir, tool_schemas, revit_server_process, attempt,
                   lastProbe, saw2xx, readiness, regIdx, regOutcomes,
                   httpServer, events, fatal, pendingExit>>
    /\ UNCHANGED <<reqVars, trVars, monVars, batchVars>>

\* wait(timeout=5): the process has exited in time, or TimeoutExpired is
\* raised out of shutdown and out of main (an uncaught exception: status 1).
ShutdownWait ==
    /\ mainPc = "shutdown_wait"
    /\ \E inTime \in BOOLEAN :
         IF inTime
         THEN /\ exitCode' = pendingExit
              /\ UNCHANGED fatal
         ELSE /\ exitCode' = 1
              /\ fatal' = Fault("TimeoutExpired", "shutdown")
    /\ mainPc' = "exited"
    /\ UNCHANGED <<schemaDir, tool_schemas, revit_server_process, attempt,
                   lastProbe, saw2xx, readiness, regIdx, regOutcomes,
                   httpServer, events, signals, pendingExit>>
    /\ UNCHANGED <<reqVars, trVars, monVars, batchVars>>

(***************************************************************************)
(* MCP_ToolRequestHandler.do_POST and handle_tool_request.  HTTPServer      *)
(* handles one request at a time, inside serve_forever.                    *)
(***************************************************************************)
\* Requests are handled inside serve_forever, in main's thread, and nowhere
\* else.
Serving_AfterInterrupt == httpServer = "serving"
Serving == mainPc = "serving"

\* A POST arrives and do_POST is entered.
Accept ==
    /\ Serving
    /\ reqPc \in {"idle", "sent", "faulted"}
    /\ accepted < MaxRequests
    /\ \E tool \in ToolNames, raw \in RawBodies :
         /\ reqTool' = tool
         /\ reqRaw' = raw
    /\ reqPc' = "received"
    /\ request_data' = JNull
    /\ revit_request' = JNull
    /\ response' = NoAnswer
    /\ response_data' = JNull
    /\ backendCalls' = 0
    /\ reqFault' = NoFault
    /\ httpResp' = NoResponse
    /\ accepted' = accepted + 1
    /\ UNCHANGED <<mainVars, trVars, monVars, batchVars>>

\* int(self.headers['Content-Length']) and json.loads, neither inside a try:
\* a missing header is int(None), a TypeError; a body that is no JSON is a
\* JSONDecodeError.  Either leaves do_POST, and nothing is sent.
ReadBody ==
    /\ Serving
    /\ reqPc = "received"
    /\ IF ~reqRaw.length
       THEN /\ reqFault' = Fault("TypeError", "do_POST")
            /\ reqPc' = "faulted"
            /\ UNCHANGED request_data
       ELSE IF ~reqRaw.wellformed
       THEN /\ reqFault' = Fault("JSONDecodeError", "do_POST")
            /\ reqPc' = "faulted"
            /\ UNCHANGED request_data
       ELSE /\ request_data' = reqRaw.data
            /\ reqPc' = "handling"
            /\ UNCHANGED reqFault
    /\ UNCHANGED <<reqTool, reqRaw, revit_request, response, response_data,
                   backendCalls, httpResp, accepted>>
    /\ UNCHANGED <<mainVars, trVars, monVars, batchVars>>

\* The endpoint chosen for the tool, or the ValueError of the else branch.
Endpoint(tool_name) ==
    IF tool_name = ElementQuery THEN Ret(JStr("/api/element/mcp"))
    ELSE IF tool_name = DynamoExecute THEN Ret(JStr("/api/dynamo/mcp"))
    ELSE Raise("ValueError", UnknownToolMsg(tool_name))

\* except Exception, around the body of handle_tool_request
HandlerCatches_ValueErrorOnly(c) == c = "ValueError"
HandlerCatches(c) == IsException(c)

\* handle_tool_request up to the backend call: the request is translated and
\* the endpoint chosen; an exception becomes the error result.
TranslateRequest ==
    /\ Serving
    /\ reqPc = "handling"
    /\ LET r == translate_mcp_to_revit(reqTool, request_data)
           e == IF r.raised THEN r
                ELSE IF Endpoint(reqTool).raised THEN Endpoint(reqTool)
                ELSE r
       IN  IF ~e.raised
           THEN /\ revit_request' = e.val
                /\ reqPc' = "translated"
                /\ UNCHANGED <<response_data, reqFault>>
           ELSE IF HandlerCatches(e.cls)
           THEN /\ response_data' = ErrorResponse(JStr(e.msg))
                /\ reqPc' = "handled"
                /\ UNCHANGED <<revit_request, reqFault>>
           ELSE /\ reqFault' = Fault(e.cls, "handle_tool_request")
                /\ reqPc' = "faulted"
                /\ UNCHANGED <<revit_request, response_data>>
    /\ UNCHANGED <<reqTool, reqRaw, request_data, response, backendCalls,
                   httpResp, accepted>>
    /\ UNCHANGED <<mainVars, trVars, monVars, batchVars>>

\* requests.post(endpoint, json=revit_request, ...) is called.
CallBackend ==
    /\ Serving
    /\ reqPc = "translated"
    /\ backendCalls < MaxBackendCalls
    /\ backendCalls' = backendCalls + 1
    /\ reqPc' = "called"
    /\ UNCHANGED <<reqTool, reqRaw, request_data, revit_request, response,
                   response_data, reqFault, httpResp, accepted>>
    /\ UNCHANGED <<mainVars, trVars, monVars, batchVars>>

\* The call ends: a response, or an exception of the transport.
BackendReturn ==
    /\ Serving
    /\ reqPc = "called"
    /\ \E a \in BackendAnswers : response' = a
    /\ reqPc' = "returned"
    /\ UNCHANGED <<reqTool, reqRaw, request_data, revit_request,
                   response_data, backendCalls, reqFault, httpResp, accepted>>
    /\ UNCHANGED <<mainVars, trVars, monVars, batchVars>>

\* The error message for a response whose status is not 200.
StatusMsg(a) ==
    "Revit MCP Server returned status " \o ToString(a.code) \o ": " \o a.text

\* Where a response whose status is not 200 leads: the error result is
\* returned.
AfterBadStatus_Retry == "translated"
AfterBadStatus == "handled"

\* response.status_code != 200 is the test; this is its complement.
StatusOk_Any(code) == TRUE
StatusOk(code) == code = 200

\* response.json() and translate_revit_to_mcp, for a response of status 200.
TranslateResponse(tool_name, a) ==
    IF ~a.json
    THEN Raise("JSONDecodeError", "Expecting value: line 1 column 1 (char 0)")
    ELSE translate_revit_to_mcp(tool_name, a.body)

\* What handle_tool_request returns, as a function of the tool name, the
\* payload and the backend's answer to the call (when one is made).
handle_tool_request(tool_name, payload, a) ==
    LET r == translate_mcp_to_revit(tool_name, payload)
        e == Endpoint(tool_name)
    IN  IF r.raised THEN ErrorResponse(JStr(r.msg))
        ELSE IF e.raised THEN ErrorResponse(JStr(e.msg))
        ELSE IF a.kind = "exc" THEN ErrorResponse(JStr(a.msg))
        ELSE IF ~StatusOk(a.code) THEN ErrorResponse(JStr(StatusMsg(a)))
        ELSE LET t == TranslateResponse(tool_name, a)
             IN  IF t.raised THEN ErrorResponse(JStr(t.msg)) ELSE t.val

\* handle_tool_request after the backend call.
ProcessResponse ==
    /\ Serving
    /\ reqPc = "returned"
    /\ IF response.kind = "http" /\ ~StatusOk(response.code)
       THEN /\ response_data' = ErrorResponse(JStr(StatusMsg(response)))
            /\ reqPc' = AfterBadStatus
            /\ UNCHANGED reqFault
       ELSE LET r == IF response.kind = "exc"
                     THEN Raise(response.cls, response.msg)
                     ELSE TranslateResponse(reqTool, response)
            IN  IF ~r.raised
                THEN /\ response_data' = r.val
                     /\ reqPc' = "handled"
                     /\ UNCHANGED reqFault
                ELSE IF HandlerCatches(r.cls)
                THEN /\ response_data' = ErrorResponse(JStr(r.msg))
                     /\ reqPc' = "handled"
                     /\ UNCHANGED reqFault
                ELSE /\ reqFault' = Fault(r.cls, "handle_tool_request")
                     /\ reqPc' = "faulted"
                     /\ UNCHANGED response_data
    /\ UNCHANGED <<reqTool, reqRaw, request_data, revit_request, response,
                   backendCalls, httpResp, accepted>>
    /\ UNCHANGED <<mainVars, trVars, monVars, batchVars>>

\* send_response(200), the Content-type header, json.dumps(response_data):
\* written to the caller, unless the caller has closed the connection, which
\* raises BrokenPipeError out of do_POST.
SendResponse ==
    /\ Serving
    /\ reqPc = "handled"
    /\ \E delivered \in BOOLEAN :
         IF delivered
         THEN /\ httpResp' = [code |-> 200, ctype |-> "application/json",
                              body |-> response_data]
              /\ reqPc' = "sent"
              /\ UNCHANGED reqFault
         ELSE /\ reqFault' = Fault("BrokenPipeError", "do_POST")
              /\ reqPc' = "faulted"
              /\ UNCHANGED httpResp
    /\ UNCHANGED <<reqTool, reqRaw, request_data, revit_request, response,
                   response_data, backendCalls, accepted>>
    /\ UNCHANGED <<mainVars, trVars, monVars, batchVars>>

(***************************************************************************)
(* The bridge.                                                             *)
(***************************************************************************)
Next ==
    \/ LoadSchemas
    \/ SpawnBackend
    \/ ProbeIssue
    \/ ProbeReturn
    \/ Sleep
    \/ RaiseNotReady
    \/ RegisterBegin
    \/ RegisterTool
    \/ RegisterDone
    \/ StartHttpServer
    \/ ServeForever
    \/ Interrupt
    \/ ServerClose
    \/ FatalExit
    \/ ShutdownTerminate
    \/ ShutdownWait
    \/ Accept
    \/ ReadBody
    \/ TranslateRequest
    \/ CallBackend
    \/ BackendReturn
    \/ ProcessResponse
    \/ SendResponse

Spec == Init /\ [][Next]_vars

(***************************************************************************)
(* The translators called directly, on every tool name and every value of  *)
(* the input sets.                                                         *)
(***************************************************************************)
TranslatorInit ==
    /\ MainInit
    /\ schemaDir = [files |-> <<>>, ok |-> TRUE, bad |-> 0]
    /\ ReqInit
    /\ trPc = "input"
    /\ trTool \in ToolNames
    /\ trReq \in Payloads
    /\ trResp \in BackendBodies
    /\ trOut = Ret(JNull)
    /\ MonIdle
    /\ BatchIdle

ToBackend ==
    /\ trPc = "input"
    /\ trOut' = translate_mcp_to_revit(trTool, trReq)
    /\ trPc' = "to_backend"
    /\ UNCHANGED <<trTool, trReq, trResp>>
    /\ UNCHANGED <<mainVars, reqVars, monVars, batchVars>>

ToFront ==
    /\ trPc = "input"
    /\ trOut' = translate_revit_to_mcp(trTool, trResp)
    /\ trPc' = "to_front"
    /\ UNCHANGED <<trTool, trReq, trResp>>
    /\ UNCHANGED <<mainVars, reqVars, monVars, batchVars>>

\* The round trip: the request was translated, the backend answers trResp,
\* and the answer is translated back for the same tool.
RoundTrip ==
    /\ trPc = "to_backend"
    /\ ~trOut.raised
    /\ trOut' = translate_revit_to_mcp(trTool, trResp)
    /\ trPc' = "round_trip"
    /\ UNCHANGED <<trTool, trReq, trResp>>
    /\ UNCHANGED <<mainVars, reqVars, monVars, batchVars>>

TranslatorNext == ToBackend \/ ToFront \/ RoundTrip

TranslatorSpec == TranslatorInit /\ [][TranslatorNext]_vars

(***************************************************************************)
(* _monitor_process_output: the one daemon thread started by               *)
(* start_revit_server, and the backend writing to its two pipes.           *)
(***************************************************************************)
\* The number of lines a pipe buffers before a write to it blocks.
PipeCap == 2
\* The number of lines the backend writes to one stream.
MaxLines == 3

OtherStream(s) == IF s = "stdout" THEN "stderr" ELSE "stdout"

\* The process has been started with both streams piped and the thread is in
\* its first loop.  The backend uses some of its streams and leaves the
\* others open and silent.
MonitorInit ==
    /\ MainInit
    /\ schemaDir = [files |-> <<>>, ok |-> TRUE, bad |-> 0]
    /\ ReqInit
    /\ TrIdle
    /\ monPc = "stdout"
    /\ pipe = [s \in Streams |-> 0]
    /\ writeEnd = [s \in Streams |-> TRUE]
    /\ silent \in SUBSET Streams
    /\ written = [s \in Streams |-> 0]
    /\ BatchIdle

\* The backend wants to write a line to stream s.
WantsToWrite(s) == s \notin silent /\ writeEnd[s] /\ written[s] < MaxLines

\* The backend writes a line: possible while the pipe has room.
BackendWrite(s) ==
    /\ WantsToWrite(s)
    /\ pipe[s] < PipeCap
    /\ pipe' = [pipe EXCEPT ![s] = @ + 1]
    /\ written' = [written EXCEPT ![s] = @ + 1]
    /\ UNCHANGED <<monPc, writeEnd, silent>>
    /\ UNCHANGED <<mainVars, reqVars, trVars, batchVars>>

\* The backend closes a stream it uses.
BackendClose(s) ==
    /\ s \notin silent
    /\ writeEnd[s]
    /\ writeEnd' = [writeEnd EXCEPT ![s] = FALSE]
    /\ UNCHANGED <<monPc, pipe, silent, written>>
    /\ UNCHANGED <<mainVars, reqVars, trVars, batchVars>>

\* readline returns a line of stream s, which is logged: only the stream
\* whose loop the thread is in is read.
ReadLine(s) ==
    /\ monPc = s
    /\ pipe[s] > 0
    /\ pipe' = [pipe EXCEPT ![s] = @ - 1]
    /\ UNCHANGED <<monPc, writeEnd, silent, written>>
    /\ UNCHANGED <<mainVars, reqVars, trVars, batchVars>>

\* readline returns b'' at the end of the stream: the loop over stdout is
\* followed by the loop over stderr, and that by the end of the thread.
EndOfStream ==
    /\ monPc \in Streams
    /\ pipe[monPc] = 0
    /\ ~writeEnd[monPc]
    /\ monPc' = IF monPc = "stdout" THEN "stderr" ELSE "done"
    /\ UNCHANGED <<pipe, writeEnd, silent, written>>
    /\ UNCHANGED <<mainVars, reqVars, trVars, batchVars>>

MonitorNext ==
    \/ \E s \in Streams : BackendWrite(s)
    \/ \E s \in Streams : BackendClose(s)
    \/ \E s \in Streams : ReadLine(s)
    \/ EndOfStream

MonitorSpec == MonitorInit /\ [][MonitorNext]_vars

(***************************************************************************)
(* RevitAPIParser.batch_process of api_parser/revit_parser.py: every HTML  *)
(* file found is parsed, the results and their Q&A pairs are collected,    *)
(* and three JSON files are written.                                       *)
(***************************************************************************)
\* The largest number of HTML files found.
MaxFiles == 3
\* The largest number of Q&A pairs generated for one file.
MaxQa == 2

\* An HTML file, by what parsing it does: it succeeds with some Q&A pairs,
\* it fails while the file is read (before there is any pair), or it fails
\* while the markdown is saved (after the pairs were generated).
FileKinds ==
    {[parse |-> "ok", qa |-> n] : n \in 0..MaxQa}
    \cup {[parse |-> "UnicodeDecodeError", qa |-> 0]}
    \cup {[parse |-> "OSError", qa |-> n] : n \in 0..MaxQa}
FileLists == UNION {[1..n -> FileKinds] : n \in 0..MaxFiles}

\* The Q&A pairs of file i: each is named by its file and its position.
QaPairs(i, n) == [k \in 1..n |-> <<i, k>>]

NoneResult == [kind |-> "None"]
\* except Exception, around the body of parse_html_file
ParseCatches_Nothing(c) == FALSE
ParseCatches(c) == IsException(c)

\* parse_html_file: the result dict, or None when an exception was caught.
parse_html_file(i, f) ==
    IF f.parse = "ok"
    THEN Ret([kind |-> "dict", source_file |-> i, qa_pairs |-> QaPairs(i, f.qa)])
    ELSE IF ParseCatches(f.parse) THEN Ret(NoneResult)
    ELSE Raise(f.parse, "parse")

\* if result: None is false, the result dict (never empty) is true.
Truthy(result) == result.kind # "None"

BatchInit ==
    /\ MainInit
    /\ schemaDir = [files |-> <<>>, ok |-> TRUE, bad |-> 0]
    /\ ReqInit
    /\ TrIdle
    /\ MonIdle
    /\ batchPc = "loop"
    /\ html_files \in FileLists
    /\ fileIdx = 1
    /\ attempts = [i \in DOMAIN html_files |-> 0]
    /\ all_results = <<>>
    /\ training_data = <<>>
    /\ stats = NoStats

\* One iteration of the loop over html_files.
ProcessFile ==
    /\ batchPc = "loop"
    /\ fileIdx <= Len(html_files)
    /\ attempts' = [attempts EXCEPT ![fileIdx] = @ + 1]
    /\ LET result == parse_html_file(fileIdx, html_files[fileIdx]) IN
       IF result.raised
       THEN /\ batchPc' = "aborted"
            /\ UNCHANGED <<fileIdx, all_results, training_data>>
       ELSE /\ fileIdx' = fileIdx + 1
            /\ UNCHANGED batchPc
            /\ IF Truthy(result.val)
               THEN /\ all_results' = Append(all_results, result.val)
                    /\ training_data' = training_data \o result.val.qa_pairs
               ELSE UNCHANGED <<all_results, training_data>>
    /\ UNCHANGED <<html_files, stats>>
    /\ UNCHANGED <<mainVars, reqVars, trVars, monVars>>

\* The loop is over.
LoopDone ==
    /\ batchPc = "loop"
    /\ fileIdx > Len(html_files)
    /\ batchPc' = "write"
    /\ UNCHANGED <<html_files, fileIdx, attempts, all_results, training_data,
                   stats>>
    /\ UNCHANGED <<mainVars, reqVars, trVars, monVars>>

\* revit_api_raw.json, revit_api_training.json and processing_stats.json
\* are written; a write that fails raises OSError out of batch_process.
WriteOutputs ==
    /\ batchPc = "write"
    /\ \E saved \in BOOLEAN :
         IF saved
         THEN /\ stats' =
                   [total_files_processed |-> Len(all_results),
                    total_qa_pairs |-> Len(training_data),
                    files_with_errors |-> Len(html_files) - Len(all_results)]
              /\ batchPc' = "done"
         ELSE /\ batchPc' = "write_failed"
              /\ UNCHANGED stats
    /\ UNCHANGED <<html_files, fileIdx, attempts, all_results, training_data>>
    /\ UNCHANGED <<mainVars, reqVars, trVars, monVars>>

BatchNext == ProcessFile \/ LoopDone \/ WriteOutputs

BatchSpec == BatchInit /\ [][BatchNext]_vars

(***************************************************************************)
(* Properties.                                                             *)
(***************************************************************************)
IsErrorShape(v) ==
    /\ IsDict(v)
    /\ DOMAIN v.d = {"status", "error"}
    /\ v.d["status"] = JStr("error")
IsSuccessShape(v) ==
    /\ IsDict(v)
    /\ DOMAIN v.d = {"status", "result"}
    /\ v.d["status"] = JStr("success")
IsPrefix(s, t) == Len(s) <= Len(t) /\ s = SubSeq(t, 1, Len(s))

\* The request has left do_POST: its response is written, or an exception
\* escaped.
Finished == reqPc \in {"sent", "faulted"}
\* handle_tool_request has returned a value.
Returned == reqPc \in {"handled", "sent"}

\* C1: whatever the tool name, the payload and the outcome of the backend
\* call, no exception leaves handle_tool_request, and the value it returns
\* is {status: "error", error: ...} or {status: "success", result: ...}.
C1_HandleNeverRaises ==
    /\ reqFault.at # "handle_tool_request"
    /\ Returned => IsErrorShape(response_data) \/ IsSuccessShape(response_data)

\* The backend answered 200 with a JSON array: the AttributeError of the
\* response translator was caught and became the error result.
C1_Witness ==
    /\ reqPc = "handled"
    /\ response.kind = "http" /\ response.code = 200 /\ response.body = JList
    /\ response_data = ErrorResponse(JStr("'list' object has no attribute 'get'"))

\* C2: every POST that has been dealt with got a JSON response whose status
\* field is "success" or "error", and no exception escaped to the transport
\* layer.
C2_ResponseAlwaysJson ==
    Finished =>
        /\ reqFault = NoFault
        /\ httpResp.ctype = "application/json"
        /\ IsErrorShape(httpResp.body) \/ IsSuccessShape(httpResp.body)

\* C3: for a tool name that is not known, whatever the payload,
\* handle_tool_request returns exactly the error "Unknown tool: <name>", and
\* no backend call is prepared, issued or answered for the request.
C3_UnknownToolError ==
    reqTool \notin KnownTools =>
        /\ backendCalls = 0
        /\ reqPc \notin {"translated", "called", "returned"}
        /\ revit_request = JNull
        /\ Returned =>
             response_data = ErrorResponse(JStr("Unknown tool: " \o reqTool))

\* An unknown tool name with a payload that is no mapping got the error.
C3_Witness ==
    /\ reqPc = "sent"
    /\ reqTool = "revit_nonexistent"
    /\ request_data = JList
    /\ backendCalls = 0
    /\ httpResp.body = ErrorResponse(JStr("Unknown tool: revit_nonexistent"))

\* C4, as claimed: a request that has finished caused exactly one backend
\* call (stated for the requests whose response was sent).
C4_ExactlyOneCall == reqPc = "sent" => backendCalls = 1

\* C4, amended: a request causes at most one backend call, whatever the
\* backend answers; when it has finished, the number of calls is 1 if its
\* translation succeeded and 0 if not.
C4_AtMostOneCall ==
    /\ backendCalls <= 1
    /\ Finished \/ Returned =>
         (backendCalls = 1 <=>
            /\ reqTool \in KnownTools
            /\ IsDict(request_data)
            /\ IsDict(Get(request_data, "inputs", EmptyDict)))

\* A request whose backend call was answered with status 500 was finished
\* with that one call.
C4_Witness ==
    /\ reqPc = "sent"
    /\ response.kind = "http" /\ response.code = 500
    /\ backendCalls = 1
    /\ IsErrorShape(httpResp.body)

\* C5: for every tool name, known or not, translate_revit_to_mcp maps a
\* response whose status is "error" to {status: "error", error: e}, where e
\* is the response's error field, or "Unknown error" when it has none; the
\* result is the same for every tool name.
C5_ErrorShortCircuit ==
    (/\ trPc = "to_front"
     /\ IsDict(trResp)
     /\ "status" \in DOMAIN trResp.d
     /\ trResp.d["status"] = JStr("error")) =>
        /\ ~trOut.raised
        /\ trOut.val =
             JDict([status |-> JStr("error"),
                    error |-> IF "error" \in DOMAIN trResp.d
                              THEN trResp.d["error"]
                              ELSE JStr("Unknown error")])
        /\ \A other \in ToolNames :
             translate_revit_to_mcp(other, trResp) = trOut

\* An error response without an error field, translated for an unknown tool.
C5_Witness ==
    /\ trPc = "to_front"
    /\ trTool = "revit_nonexistent"
    /\ trResp = BodyErrorBare
    /\ trOut = Ret(JDict([status |-> JStr("error"),
                          error |-> JStr("Unknown error")]))

\* The states inside _wait_for_server_ready.
InWait == mainPc \in {"waiting", "probing", "sleeping", "probe_blocked"}

\* C6: _wait_for_server_ready issues at most max_attempts probes, is never
\* stuck (inside it, a next step is always possible), and when it fails it
\* raises the readiness error, after max_attempts probes.
C6_WaitTerminates ==
    /\ attempt <= MaxRetries
    /\ InWait => ENABLED Next
    /\ fatal.at = "ready" => fatal.cls = "RuntimeError" /\ attempt = MaxRetries

\* C7: a probe answered with a 2xx status ends the wait with success, no
\* probe follows it, and the wait fails only after max_attempts probes none
\* of which was answered 2xx.
C7_ReadyOnAny2xx ==
    /\ (lastProbe.kind = "http" /\ lastProbe.code \in 200..299)
          => readiness = "ready"
    /\ readiness = "ready" => ~InWait
    /\ fatal.at = "ready" => ~saw2xx /\ attempt = MaxRetries

StartupOrder == <<"spawn", "ready", "register", "serve">>

\* C8: the startup events happen in the order spawn, readiness, register,
\* serve; no registration call is made, no server is bound and no request is
\* accepted before readiness is confirmed.
C8_StartupOrdered ==
    /\ IsPrefix(events, StartupOrder)
    /\ readiness = "ready" <=> Len(events) >= 2
    /\ readiness # "ready" =>
         /\ regOutcomes = <<>>
         /\ regIdx = 0
         /\ httpServer = "none"
         /\ accepted = 0
         /\ reqPc = "idle"
    /\ accepted > 0 => events = StartupOrder

\* A request is being handled, after two registrations.
C8_Witness ==
    /\ mainPc = "serving"
    /\ reqPc = "handling"
    /\ events = StartupOrder
    /\ Len(regOutcomes) = 2

\* C9: when the readiness check has exhausted its budget, no tool is
\* registered, the HTTP server is never created, no request is handled, main
\* only shuts down, and the bridge exits with a failure status.
C9_ReadinessFailureFatal ==
    readiness = "failed" =>
        /\ mainPc \in {"fatal", "shutdown", "shutdown_wait", "exited"}
        /\ regOutcomes = <<>>
        /\ "register" \notin {events[i] : i \in DOMAIN events}
        /\ httpServer = "none"
        /\ accepted = 0
        /\ reqPc = "idle"
        /\ mainPc = "exited" => exitCode # 0

\* The bridge has exited with status 1 after the budget was exhausted.
C9_Witness ==
    /\ readiness = "failed"
    /\ attempt = MaxRetries
    /\ mainPc = "exited"
    /\ exitCode = 1
    /\ signals = 1

\* C10: register_tools attempts every loaded schema, in order, and logs an
\* outcome for each; a registration that fails stops neither the loop nor
\* main: no exception leaves register_tools.
C10_AllSchemasAttempted ==
    /\ fatal.at \notin {"register", "registration_data"}
    /\ Len(regOutcomes) <= Len(tool_schemas)
    /\ \A i \in DOMAIN regOutcomes :
         /\ regOutcomes[i].tool = tool_schemas[i]
         /\ regOutcomes[i].outcome \in {"registered", "failed", "error"}
    /\ mainPc = "reg_loop" => Len(regOutcomes) = regIdx - 1
    /\ mainPc \in {"bind", "bound", "serving"} =>
         Len(regOutcomes) = Len(tool_schemas)

\* main has left serve_forever, or its try block, for good.
ShutdownBegun == mainPc \in {"closing", "shutdown", "shutdown_wait", "exited"}

\* C11: a backend that has not exited when the bounded wait ends is not
\* escalated: no exception leaves shutdown or main, and the bridge exits
\* normally (stated for the shutdown that follows an interrupt of the
\* serving loop).
C11_ShutdownNotEscalated ==
    httpServer = "closed" =>
        /\ fatal.at # "shutdown"
        /\ mainPc = "exited" => exitCode = 0

\* C12: shutdown is ordered: the server has stopped serving before the
\* backend is signalled, the signal is sent once and before the wait, and
\* once shutdown has begun no request is accepted, no request moves on and
\* no backend call is issued.
C12_ShutdownOrdered ==
    /\ [](signals > 0 => httpServer \in {"none", "closed"})
    /\ [](signals <= 1)
    /\ [](mainPc = "shutdown_wait" => signals = 1)
    /\ [][ShutdownBegun =>
            /\ backendCalls' = backendCalls
            /\ accepted' = accepted
            /\ reqPc' = reqPc]_vars

\* The backend has been signalled after a served request, with the server
\* closed, and main waits for it.
C12_Witness ==
    /\ mainPc = "shutdown_wait"
    /\ signals = 1
    /\ httpServer = "closed"
    /\ reqPc = "sent"
    /\ backendCalls = 1

\* C13: neither stream can stall the other: whenever the backend has filled
\* the pipe of one stream and the other stream is open and silent, the
\* monitor can read the filled stream, so the backend's write is not blocked
\* for ever.
C13_StreamsDrained ==
    \A s \in Streams :
        (/\ monPc \in Streams
         /\ pipe[s] = PipeCap
         /\ WantsToWrite(s)
         /\ OtherStream(s) \in silent) => ENABLED ReadLine(s)

\* The tool names of the Schema Store.
SchemaStore == {tool_schemas[i] : i \in DOMAIN tool_schemas}

\* C14: a tool name for which a backend call is issued has a translator
\* mapping and an entry in the Schema Store; a request that names a tool
\* absent from the Schema Store is answered with an error and never
\* dispatched.
C14_DispatchedToolsInStore ==
    /\ backendCalls > 0 => reqTool \in KnownTools /\ reqTool \in SchemaStore
    /\ (Returned /\ reqTool \notin SchemaStore) => IsErrorShape(response_data)

\* The position of a request in do_POST and handle_tool_request, in the
\* order of the code; an escaped exception and an abandoned request are last.
StageIndex(pc) ==
    CASE pc = "idle" -> 0
      [] pc = "received" -> 1
      [] pc = "handling" -> 2
      [] pc = "translated" -> 3
      [] pc = "called" -> 4
      [] pc = "returned" -> 5
      [] pc = "handled" -> 6
      [] pc = "sent" -> 7
      [] OTHER -> 8

\* The request has errored: an exception escaped do_POST, the request was
\* abandoned, or handle_tool_request returned the error result.
Errored ==
    \/ reqPc \in {"faulted", "aborted"}
    \/ Returned /\ IsErrorShape(response_data)

\* C15: within one request the stages are passed in the order of the code,
\* each at most once; the backend is called once at most, and only after
\* the request was translated; the response is translated only after the
\* backend call returned; once the request has errored, no backend call and
\* no translation follows.
C15_StagesInOrder ==
    [][accepted' = accepted =>
         /\ reqPc' # reqPc => StageIndex(reqPc') > StageIndex(reqPc)
         /\ backendCalls' # backendCalls =>
              /\ reqPc = "translated"
              /\ revit_request # JNull
              /\ backendCalls = 0
         /\ revit_request' # revit_request => reqPc = "handling"
         /\ IsSuccessShape(response_data') /\ response_data' # response_data =>
              /\ reqPc = "returned"
              /\ response.kind = "http"
         /\ Errored =>
              /\ backendCalls' = backendCalls
              /\ revit_request' = revit_request
              /\ response_data' = response_data]_vars

\* A request that errored after its response was translated: the result was
\* a success, and writing it to the caller failed.
C15_Witness ==
    /\ reqPc = "faulted"
    /\ reqFault = Fault("BrokenPipeError", "do_POST")
    /\ IsSuccessShape(response_data)
    /\ backendCalls = 1

\* C16: a request accepted before shutdown began is not cancelled: when the
\* backend is signalled, no request is left unfinished.
C16_InFlightCompletes ==
    signals > 0 => reqPc \notin InFlight \cup {"aborted"}

\* C17: for a known tool and a backend response (a mapping),
\* translate_revit_to_mcp, called directly or after translate_mcp_to_revit
\* on any request it accepts, returns the error shape when the response's
\* status is "error", and otherwise status "success" with a result built
\* from the data field ({} when absent): the data itself for
\* revit_element_query, {success: true, results: data} for
\* revit_dynamo_execute.
C17_ShapeContract ==
    (/\ trPc \in {"to_front", "round_trip"}
     /\ trTool \in KnownTools
     /\ IsDict(trResp)) =>
        LET data == Get(trResp, "data", EmptyDict) IN
        /\ ~trOut.raised
        /\ IF Get(trResp, "status", JNull) = JStr("error")
           THEN IsErrorShape(trOut.val)
           ELSE /\ IsSuccessShape(trOut.val)
                /\ trTool = ElementQuery => trOut.val.d["result"] = data
                /\ trTool = DynamoExecute =>
                     trOut.val.d["result"] =
                         JDict([success |-> JBool(TRUE), results |-> data])

\* The scenario of the round trip: the element query, answered
\* {status: "ok", data: {count: 3}}.
C17_Witness ==
    /\ trPc = "round_trip"
    /\ trTool = ElementQuery
    /\ trReq = ReqElement
    /\ trResp = BodyOkCount
    /\ trOut = Ret(JDict([status |-> JStr("success"),
                          result |-> JDict([count |-> JNum(3)])]))

\* C18: for revit_element_query and a request whose inputs are a mapping,
\* translate_mcp_to_revit returns exactly {action: "getElementsByCategory",
\* parameters: {category, filterExpression}}, with the category and the
\* filter of the inputs ("" for one that is absent) and no other field.
C18_ElementQueryRequest ==
    (/\ trPc = "to_backend"
     /\ trTool = ElementQuery
     /\ IsDict(trReq)
     /\ IsDict(Get(trReq, "inputs", EmptyDict))) =>
        LET inputs == Get(trReq, "inputs", EmptyDict) IN
        /\ ~trOut.raised
        /\ IsDict(trOut.val)
        /\ DOMAIN trOut.val.d = {"action", "parameters"}
        /\ trOut.val.d["action"] = JStr("getElementsByCategory")
        /\ IsDict(trOut.val.d["parameters"])
        /\ DOMAIN trOut.val.d["parameters"].d = {"category", "filterExpression"}
        /\ trOut.val.d["parameters"].d["category"] =
               Get(inputs, "category", JStr(""))
        /\ trOut.val.d["parameters"].d["filterExpression"] =
               Get(inputs, "filter", JStr(""))

\* The scenario: category "Walls", filter "Height>10".
C18_Witness ==
    /\ trPc = "to_backend"
    /\ trTool = ElementQuery
    /\ trReq = ReqElement
    /\ trOut = Ret(JDict([action |-> JStr("getElementsByCategory"),
                          parameters |->
                              JDict([category |-> JStr("Walls"),
                                     filterExpression |-> JStr("Height>10")])]))

\* C19: a value returned by handle_tool_request is a mapping whose status is
\* "success" or "error"; it has a result field exactly when the status is
\* "success" and an error field exactly when the status is "error".
C19_ExactlyOnePayload ==
    Returned =>
        /\ IsDict(response_data)
        /\ "status" \in DOMAIN response_data.d
        /\ response_data.d["status"] \in {JStr("success"), JStr("error")}
        /\ "result" \in DOMAIN response_data.d
               <=> response_data.d["status"] = JStr("success")
        /\ "error" \in DOMAIN response_data.d
               <=> response_data.d["status"] = JStr("error")

\* The result returned for a script run that the backend reports as done.
C19_Witness ==
    /\ reqPc = "handled"
    /\ reqTool = DynamoExecute
    /\ response_data =
           SuccessResponse(JDict([success |-> JBool(TRUE),
                                  results |-> JDict([count |-> JNum(3)])]))

\* C20 as stated: for a tool name outside the known set, both translators
\* fail with the unknown-tool error, whatever the payload and whatever the
\* backend response.
C20_BothFailUnknown ==
    (trPc \in {"to_backend", "to_front"} /\ trTool \notin KnownTools) =>
        trOut = Raise("ValueError", UnknownToolMsg(trTool))

\* C20, amended: for a tool name outside the known set,
\* translate_mcp_to_revit fails with the unknown-tool error for every
\* payload; translate_revit_to_mcp fails with it for every backend response
\* (a mapping) whose status is not "error", and returns the error shape,
\* without failing, for one whose status is "error".
C20_UnknownToolFails ==
    trTool \notin KnownTools =>
        /\ trPc = "to_backend" =>
             trOut = Raise("ValueError", UnknownToolMsg(trTool))
        /\ (trPc = "to_front" /\ IsDict(trResp)) =>
             IF Get(trResp, "status", JNull) = JStr("error")
             THEN ~trOut.raised /\ IsErrorShape(trOut.val)
             ELSE trOut = Raise("ValueError", UnknownToolMsg(trTool))

\* A successful backend response, translated for a tool that is not known.
C20_Witness ==
    /\ trPc = "to_front"
    /\ trTool = "revit_nonexistent"
    /\ trResp = BodyOkCount
    /\ trOut = Raise("ValueError", "Unknown tool: revit_nonexistent")

\* register_tools is over: it returned, or an exception left it.
RegistrationOver ==
    /\ "register" \in {events[i] : i \in DOMAIN events}
    /\ mainPc # "reg_loop"

\* C21: the registry calls of a pass are made in schema order, each with
\* the bearer credential and at most one per schema; when the pass is over,
\* every loaded schema has had its call.
C21_OneCallPerSchema ==
    /\ Len(regOutcomes) <= Len(tool_schemas)
    /\ \A i \in DOMAIN regOutcomes :
         /\ regOutcomes[i].tool = tool_schemas[i]
         /\ regOutcomes[i].bearer
    /\ RegistrationOver => Len(regOutcomes) = Len(tool_schemas)

\* C22: a request that waits for its backend call does not keep the server
\* from accepting another request.
C22_ConcurrentRequests ==
    (/\ mainPc = "serving"
     /\ reqPc = "called"
     /\ accepted < MaxRequests) => ENABLED Accept

\* C23: tool_schemas is assigned once, when the handler is built, and the
\* process handle once, by start_revit_server; registration and the request
\* path leave both unchanged; the value handle_tool_request returns is
\* determined by the request's tool name, its payload and the backend's
\* answer to it, whatever was handled before.
C23_RequestPathFrame ==
    /\ [][tool_schemas' # tool_schemas => mainPc = "load"]_vars
    /\ [][revit_server_process' # revit_server_process => mainPc = "start"]_vars
    /\ [](Returned =>
            response_data = handle_tool_request(reqTool, request_data, response))

\* The second request has been handled, after two registrations.
C23_Witness ==
    /\ accepted = 2
    /\ reqPc = "sent"
    /\ backendCalls = 1
    /\ Len(tool_schemas) = 2
    /\ Len(regOutcomes) = 2
    /\ revit_server_process = "Popen"

\* The number of backend processes started so far.
Spawned == Cardinality({i \in DOMAIN events : events[i] = "spawn"})

\* C24: at most one backend process is ever spawned; the handle is set
\* exactly when it was; terminate() is called only on that handle, so at
\* most one process is spawned and not yet signalled.
C24_OneProcessHandle ==
    /\ Spawned <= 1
    /\ revit_server_process = "Popen" <=> Spawned = 1
    /\ signals <= Spawned
    /\ signals > 0 => revit_server_process = "Popen"

\* The bridge served, was interrupted, and signalled its one process.
C24_Witness ==
    /\ mainPc = "exited"
    /\ httpServer = "closed"
    /\ Spawned = 1
    /\ signals = 1
    /\ exitCode = 0

\* C25: while requests are accepted, every tool that was loaded and
\* registered has a translator mapping.
C25_RegisteredToolsServable ==
    mainPc = "serving" =>
        \A i \in DOMAIN regOutcomes :
            regOutcomes[i].outcome = "registered" =>
                regOutcomes[i].tool \in KnownTools

\* C26: when the backend answers with a status other than 200 (any status
\* that is not 2xx included), handle_tool_request returns the error result
\* whose message names the status code and carries the response text: the
\* body is not parsed and not given to translate_revit_to_mcp; a success
\* result is returned only for an answer of status 200.
C26_BadStatusNotTranslated ==
    Returned =>
        /\ (response.kind = "http" /\ response.code # 200) =>
             /\ response_data =
                  ErrorResponse(JStr("Revit MCP Server returned status "
                                     \o ToString(response.code) \o ": "
                                     \o response.text))
             /\ backendCalls = 1
        /\ IsSuccessShape(response_data) =>
             response.kind = "http" /\ response.code = 200

\* A 500 answer whose body is JSON with the backend's own error indicator.
C26_Witness ==
    /\ reqPc = "sent"
    /\ response = HttpAnswer(500, "Internal Server Error", TRUE, BodyErrorTimeout)
    /\ response_data =
         ErrorResponse(JStr("Revit MCP Server returned status 500: Internal Server Error"))

\* C27: when loading the schemas fails, the bridge ends at once with a
\* failure status: no backend process is spawned, no registry call made, no
\* server bound and no request accepted.
C27_LoadFailureFatal ==
    (~schemaDir.ok /\ mainPc # "load") =>
        /\ mainPc = "exited"
        /\ fatal.at = "load"
        /\ exitCode = 1
        /\ tool_schemas = <<>>
        /\ revit_server_process = "None"
        /\ events = <<>>
        /\ regOutcomes = <<>>
        /\ httpServer = "none"
        /\ signals = 0
        /\ accepted = 0

\* The bridge has ended on a schema directory that cannot be loaded.
C27_Witness ==
    /\ ~schemaDir.ok
    /\ Len(schemaDir.files) = 2
    /\ mainPc = "exited"
    /\ exitCode = 1

\* C28: terminate() is never called twice; when main has ended after its
\* try block was entered, the backend process was signalled exactly once if
\* it had been spawned, and not at all if it had not, in which case
\* shutdown completes as well.
C28_SignalOnEveryExit ==
    /\ signals <= 1
    /\ mainPc = "shutdown_wait" => signals = 1
    /\ (mainPc = "exited" /\ schemaDir.ok) =>
         signals = (IF Spawned = 1 THEN 1 ELSE 0)

\* The bridge has ended after an exception left register_tools.
C28_Witness ==
    /\ mainPc = "exited"
    /\ fatal = Fault("AttributeError", "registration_data")
    /\ Len(regOutcomes) = 1
    /\ signals = 1
    /\ exitCode = 1

\* The files among the first n that parse, and the Q&A pairs they yield.
ParsedAmong(n) == {i \in 1..n : html_files[i].parse = "ok"}
RECURSIVE QaAmong(_)
QaAmong(n) ==
    IF n = 0 THEN 0
    ELSE QaAmong(n - 1)
         + (IF html_files[n].parse = "ok" THEN html_files[n].qa ELSE 0)

\* C29: a file that fails to parse does not end the batch; every file is
\* attempted once, in order; the results hold exactly the files that parsed
\* and the training data exactly their Q&A pairs; in the statistics written
\* the files processed and the files with errors add up to the files found,
\* and the Q&A pairs are those of the files that parsed.
C29_BatchSurvivesFailures ==
    batchPc # "none" =>
        /\ batchPc # "aborted"
        /\ \A i \in DOMAIN html_files :
             attempts[i] = (IF i < fileIdx THEN 1 ELSE 0)
        /\ batchPc # "loop" => fileIdx = Len(html_files) + 1
        /\ {all_results[k].source_file : k \in DOMAIN all_results}
               = ParsedAmong(fileIdx - 1)
        /\ Len(all_results) = Cardinality(ParsedAmong(fileIdx - 1))
        /\ Len(training_data) = QaAmong(fileIdx - 1)
        /\ \A k \in DOMAIN training_data :
             html_files[training_data[k][1]].parse = "ok"
        /\ batchPc = "done" =>
             /\ stats.total_files_processed + stats.files_with_errors
                    = Len(html_files)
             /\ stats.total_files_processed
                    = Cardinality(ParsedAmong(Len(html_files)))
             /\ stats.total_qa_pairs = QaAmong(Len(html_files))

\* Three files: the second fails while its markdown is saved, after two
\* Q&A pairs were generated for it; the others parse.
C29_Witness ==
    /\ batchPc = "done"
    /\ html_files = <<[parse |-> "ok", qa |-> 1],
                     [parse |-> "OSError", qa |-> 2],
                     [parse |-> "ok", qa |-> 2]>>
    /\ stats = [total_files_processed |-> 2, total_qa_pairs |-> 3,
                files_with_errors |-> 1]

====
